---- MODULE Spec2Model ----
(***************************************************************************)
(* X-Ray SDK: the telemetry data model (Session / Step / Observation /     *)
(* Event / Metric), the manual recording API, the Cohere instrumentation   *)
(* proxy and the span processor that projects finished spans into Steps.   *)
(*                                                                         *)
(* Representation                                                          *)
(*  - JS `null` is the empty tuple, a present value v is <<v>>.            *)
(*  - A JS string that the code scans (a response text) is a sequence of   *)
(*    one-character strings; a prompt is a sequence of text chunks; names  *)
(*    and tags are TLA+ strings.                                           *)
(*  - An ISO timestamp string is represented by the integer millisecond    *)
(*    count it denotes (toISOString keeps milliseconds only).              *)
(*  - A number of milliseconds that may carry a fraction (durationMs) is   *)
(*    held in nanoseconds, i.e. scaled by NsPerMs.                         *)
(*  - Objects live in heaps (sessions, steps, paramsHeap, calls); a        *)
(*    reference is an index into the heap.                                 *)
(***************************************************************************)
EXTENDS Integers, Sequences, FiniteSets, TLC

VARIABLES
  tick,            \* position of the wall clock on its schedule
  sessions,        \* heap of Session objects, in creation order
  currentSession,  \* `let currentSession: Session | null`
  steps,           \* heap of Step objects, in creation order
  lastCall,        \* the last call of the manual API and how it ended
  paramsHeap,      \* heap of the argument objects callers pass to chat
  calls,           \* the wrapped chat calls, each with its span
  fetches,         \* the HTTP requests sent to the collector
  store            \* the collector's `sessions` map

vars == <<tick, sessions, currentSession, steps, lastCall, paramsHeap, calls,
          fetches, store>>

sdkVars == <<sessions, currentSession, steps>>

----------------------------------------------------------------------------
(* Bounds of the model *)

MaxTicks == 2
MaxSessions == 2
MaxSteps == 2
MaxCalls == 2
MaxTimedCalls == 1
MaxFetches == 1
MaxFrags == 5
MaxPieces == 4
MaxLayout == 5
MaxObs == 2
MaxEvents == 2

----------------------------------------------------------------------------
(* Option values *)

Null == <<>>
Some(v) == <<v>>
IsNull(o) == o = <<>>
Val(o) == o[1]

----------------------------------------------------------------------------
(* Clock *)

NsPerMs == 1000000
NsPerSec == 1000000000

\* The instants the clock passes through, in nanoseconds since the epoch:
\* 1.000000100 s, 1.000000900 s, 1.001000100 s, 1.001000900 s, ...
ClockNs(k) == NsPerSec + (k \div 2) * NsPerMs + (IF k % 2 = 0 THEN 100 ELSE 900)

NowNs == ClockNs(tick)

\* new Date(ms): a time value is clipped to a whole number of milliseconds.
\* The argument is a millisecond count scaled by NsPerMs.
TimeClip(scaledMs) == scaledMs \div NsPerMs

\* new Date().toISOString()
NowISO == TimeClip(NowNs)

\* new Date(iso).getTime()
GetTime(iso) == iso

\* A whole number of milliseconds as a (possibly fractional) Number.
MsNumber(ms) == ms * NsPerMs

----------------------------------------------------------------------------
(* Strings: sequences of one-character strings *)

EmptyStr == <<>>

\* \s of a JS regular expression and the characters String.prototype.trim
\* strips, restricted to the characters the model's texts are built from.
WhiteSpace == {" ", "\n", "\t", "\r"}

LowerCase == {"a","b","c","d","e","f","g","h","i","j","k","l","m",
              "n","o","p","q","r","s","t","u","v","w","x","y","z"}

UpperOf ==
  [ a |-> "A", b |-> "B", c |-> "C", d |-> "D", e |-> "E", f |-> "F", g |-> "G",
    h |-> "H", i |-> "I", j |-> "J", k |-> "K", l |-> "L", m |-> "M", n |-> "N",
    o |-> "O", p |-> "P", q |-> "Q", r |-> "R", s |-> "S", t |-> "T", u |-> "U",
    v |-> "V", w |-> "W", x |-> "X", y |-> "Y", z |-> "Z" ]

\* String.prototype.toUpperCase on one character; also the canonicalisation
\* the `i` flag applies before comparing two characters.
UpperChar(c) == IF c \in LowerCase THEN UpperOf[c] ELSE c

\* String.prototype.trim
RECURSIVE TrimStart(_)
TrimStart(s) ==
  IF s # <<>> /\ Head(s) \in WhiteSpace THEN TrimStart(Tail(s)) ELSE s

RECURSIVE TrimEnd(_)
TrimEnd(s) ==
  IF s # <<>> /\ s[Len(s)] \in WhiteSpace
    THEN TrimEnd(SubSeq(s, 1, Len(s) - 1))
    ELSE s

Trim(s) == TrimEnd(TrimStart(s))

\* s.substring(from - 1): the characters of s from position `from` on.
From(s, from) == SubSeq(s, from, Len(s))

\* Does the literal `word` occur in s at position p, ignoring case?
MatchesAtIgnoreCase(s, p, word) ==
  /\ p >= 1
  /\ p + Len(word) - 1 <= Len(s)
  /\ \A k \in 1..Len(word) : UpperChar(s[p + k - 1]) = UpperChar(word[k])

\* The number of consecutive characters of s from position p on that are in
\* the class cls (a greedy `[cls]*`).
RECURSIVE RunLength(_, _, _)
RunLength(s, p, cls) ==
  IF p <= Len(s) /\ s[p] \in cls THEN 1 + RunLength(s, p + 1, cls) ELSE 0

----------------------------------------------------------------------------
(* The proxy's reasonRegex:                                                *)
(*   /(?:^|\n)(?:[\*_]{1,2})?REASON(?:[\*_]{1,2})?[:\s]+([\s\S]*?)$/i      *)
(* There is no `m` flag: ^ is the start of the text and $ its end, so the  *)
(* lazy capture always runs to the end of the text.                        *)

Emphasis == {"*", "_"}
ReasonSeparator == {":"} \cup WhiteSpace
ReasonWord == <<"R","E","A","S","O","N">>

Min(a, b) == IF a < b THEN a ELSE b

\* `(?:[\*_]{1,2})?[:\s]+` at position r, the closing emphasis taken
\* greedily (2, then 1, then none): the position where the capture group
\* starts, or 0 when it does not match.
ReasonTail(s, r) ==
  LET n == Min(2, RunLength(s, r, Emphasis))
      sep(k) == RunLength(s, r + k, ReasonSeparator)
  IN  IF n >= 2 /\ sep(2) >= 1 THEN r + 2 + sep(2)
      ELSE IF n >= 1 /\ sep(1) >= 1 THEN r + 1 + sep(1)
      ELSE IF sep(0) >= 1 THEN r + sep(0)
      ELSE 0

\* `(?:[\*_]{1,2})?REASON...` at position p, the opening emphasis taken
\* greedily: the position where the capture group starts, or 0.
ReasonHead(s, p) ==
  LET n == Min(2, RunLength(s, p, Emphasis))
      try(k) == IF MatchesAtIgnoreCase(s, p + k, ReasonWord)
                  THEN ReasonTail(s, p + k + Len(ReasonWord))
                  ELSE 0
  IN  IF n >= 2 /\ try(2) # 0 THEN try(2)
      ELSE IF n >= 1 /\ try(1) # 0 THEN try(1)
      ELSE try(0)

\* The whole pattern tried at index i of the text (the first character of
\* the match is s[i]): `^` first, then `\n`.
ReasonMatchAt(s, i) ==
  IF i = 1 /\ ReasonHead(s, 1) # 0 THEN ReasonHead(s, 1)
  ELSE IF i <= Len(s) /\ s[i] = "\n" THEN ReasonHead(s, i + 1)
  ELSE 0

\* text.match(reasonRegex): the leftmost match, as
\* [index, capture (match[1]), last (index of the last matched character)],
\* or Null.
ReasonExec(s) ==
  LET hits == {i \in 1..Len(s) : ReasonMatchAt(s, i) # 0}
  IN  IF hits = {} THEN Null
      ELSE LET i == CHOOSE j \in hits : \A k \in hits : j <= k
           IN  Some([index   |-> i,
                     capture |-> From(s, ReasonMatchAt(s, i)),
                     last    |-> Len(s)])

\* const reason = match ? match[1].trim() : '';
ExtractReason(text) ==
  LET match == ReasonExec(text)
  IN  IF IsNull(match) THEN EmptyStr ELSE Trim(Val(match).capture)

\* text.replace(reasonRegex, ''): the first match is cut out.
ReplaceReason(text) ==
  LET match == ReasonExec(text)
  IN  IF IsNull(match) THEN text
      ELSE SubSeq(text, 1, Val(match).index - 1) \o From(text, Val(match).last + 1)

\* const cleanText = text.replace(reasonRegex, '').trim();
CleanText(text) == Trim(ReplaceReason(text))

----------------------------------------------------------------------------
(* Numbers read from text.  A Number is NaN or a decimal held in           *)
(* thousandths; texts of the model carry at most three fractional digits   *)
(* and no exponent part.                                                   *)

NaN == [nan |-> TRUE, milli |-> 0]
Num(m) == [nan |-> FALSE, milli |-> m]

Digits == <<"0","1","2","3","4","5","6","7","8","9">>
DigitSet == {Digits[k] : k \in 1..10}
DigitVal(c) == (CHOOSE k \in 1..10 : Digits[k] = c) - 1

\* The value of the decimal digits s[p .. p+n-1].
RECURSIVE DigitsValue(_, _, _)
DigitsValue(s, p, n) ==
  IF n = 0 THEN 0
  ELSE DigitsValue(s, p, n - 1) * 10 + DigitVal(s[p + n - 1])

\* parseFloat: leading white space, an optional sign, then the longest
\* prefix of the form digits [ . digits ] or . digits; NaN when there is none.
parseFloat(str) ==
  LET s     == TrimStart(str)
      sgn   == IF s # <<>> /\ s[1] \in {"+", "-"} THEN 1 ELSE 0
      neg   == sgn = 1 /\ s[1] = "-"
      ip    == sgn + 1
      ilen  == RunLength(s, ip, DigitSet)
      dot   == ip + ilen <= Len(s) /\ s[ip + ilen] = "."
      flen  == IF dot THEN RunLength(s, ip + ilen + 1, DigitSet) ELSE 0
      f3    == Min(flen, 3)
      scale == IF f3 = 0 THEN 1000 ELSE IF f3 = 1 THEN 100 ELSE IF f3 = 2 THEN 10 ELSE 1
      mag   == DigitsValue(s, ip, ilen) * 1000
                 + DigitsValue(s, ip + ilen + 1, f3) * scale
  IN  IF ilen + flen = 0 THEN NaN
      ELSE Num(IF neg THEN 0 - mag ELSE mag)

----------------------------------------------------------------------------
(* parseDecisionFromResponse: the marker regular expression                *)
(*   new RegExp(`${pattern}:\\s*([\\s\\S]+?)(?=\\n[A-Z_]+:|$)`, 'i')       *)

\* [A-Z_] under the `i` flag.
KeyChars == LowerCase \cup {UpperOf[c] : c \in LowerCase} \cup {"_"}

\* A lookahead that accepts the end of the text only.
KeyLookaheadAtEnd(s, j) == j = Len(s) + 1

\* The lookahead (?=\n[A-Z_]+:|$) at position j.
KeyLookahead(s, j) ==
  \/ j = Len(s) + 1
  \/ /\ j <= Len(s)
     /\ s[j] = "\n"
     /\ LET run == RunLength(s, j + 1, KeyChars)
        IN  run >= 1 /\ j + 1 + run <= Len(s) /\ s[j + 1 + run] = ":"

\* `\s*([\s\S]+?)(?=...)` from position c (just after the colon): the
\* captured range <<first, last>>, or <<>> when it cannot match.  \s* is
\* greedy and gives one character back when nothing is left to capture.
KeyCapture(s, c) ==
  LET ws == RunLength(s, c, WhiteSpace)
      b  == IF c + ws <= Len(s) THEN c + ws ELSE c + ws - 1
  IN  IF b < c \/ b > Len(s) THEN <<>>
      ELSE LET stop == CHOOSE j \in (b + 1)..(Len(s) + 1) :
                          /\ KeyLookahead(s, j)
                          /\ \A k \in (b + 1)..(j - 1) : ~KeyLookahead(s, k)
           IN  <<b, stop - 1>>

\* One alternative of the pattern, then the colon, tried at index i.
KeyWordAt(s, i, word) ==
  /\ i + Len(word) <= Len(s)
  /\ s[i + Len(word)] = ":"
  /\ MatchesAtIgnoreCase(s, i, word)
  /\ KeyCapture(s, i + Len(word) + 1) # <<>>

\* The pattern (its alternatives in order) tried at index i: match[1], or Null.
RECURSIVE KeyMatchAt(_, _, _)
KeyMatchAt(s, i, words) ==
  IF words = <<>> THEN Null
  ELSE IF KeyWordAt(s, i, Head(words))
    THEN LET r == KeyCapture(s, i + Len(Head(words)) + 1)
         IN  Some(SubSeq(s, r[1], r[2]))
    ELSE KeyMatchAt(s, i, Tail(words))

\* response.match(regex): match[1] of the leftmost match, or Null.
KeyExec(s, words) ==
  LET hits == {i \in 1..Len(s) : ~IsNull(KeyMatchAt(s, i, words))}
  IN  IF hits = {} THEN Null
      ELSE KeyMatchAt(s, CHOOSE j \in hits : \A k \in hits : j <= k, words)

----------------------------------------------------------------------------
(* parseDecisionFromResponse *)

\* s.split(sep) for a one-character separator.
RECURSIVE Split(_, _)
Split(s, sep) ==
  LET cut == {i \in 1..Len(s) : s[i] = sep}
  IN  IF cut = {} THEN <<s>>
      ELSE LET i == CHOOSE j \in cut : \A k \in cut : j <= k
           IN  <<SubSeq(s, 1, i - 1)>> \o Split(From(s, i + 1), sep)

\* parts.join(sep) for a string separator.
RECURSIVE Join(_, _)
Join(parts, sep) ==
  IF parts = <<>> THEN EmptyStr
  ELSE IF Len(parts) = 1 THEN parts[1]
  ELSE parts[1] \o sep \o Join(Tail(parts), sep)

ToUpperCase(s) == [i \in 1..Len(s) |-> UpperChar(s[i])]

\* s.includes(word), case-sensitive.
Includes(s, word) ==
  \E i \in 1..(Len(s) - Len(word) + 1) : SubSeq(s, i, i + Len(word) - 1) = word

\* The `keys` table: the result key and the alternatives of its pattern.
keys ==
  << [key |-> "agent",      words |-> << <<"A","G","E","N","T">> >>],
     [key |-> "confidence", words |-> << <<"C","O","N","F","I","D","E","N","C","E">> >>],
     [key |-> "reasoning",  words |-> << <<"R","E","A","S","O","N">>,
                                         <<"R","E","A","S","O","N","I","N","G">> >>],
     [key |-> "recipient",  words |-> << <<"R","E","C","I","P","I","E","N","T">> >>],
     [key |-> "message",    words |-> << <<"M","E","S","S","A","G","E">> >>],
     [key |-> "title",      words |-> << <<"T","I","T","L","E">> >>],
     [key |-> "datetime",   words |-> << <<"D","A","T","E","T","I","M","E">> >>],
     [key |-> "urgency",    words |-> << <<"U","R","G","E","N","C","Y">> >>],
     [key |-> "attendees",  words |-> << <<"A","T","T","E","N","D","E","E","S">> >> ] >>

KeyNames == {keys[k].key : k \in 1..Len(keys)}
RawKeys == KeyNames \cup {"decision"}

WordsOf(key) == keys[CHOOSE k \in 1..Len(keys) : keys[k].key = key].words

\* The ParsedDecision literal the function starts from.
EmptyDecision ==
  [ agent      |-> Null,
    confidence |-> Null,
    reasoning  |-> Null,
    recipient  |-> Null,
    message    |-> Null,
    title      |-> Null,
    attendees  |-> Null,
    datetime   |-> Null,
    urgency    |-> Null,
    yesNo      |-> Null,
    rawFields  |-> [k \in RawKeys |-> Null] ]

\* const rawValue = match[1].trim(), for one row of the table; Null when
\* the row's expression does not match.
RawValue(response, key) ==
  LET m == KeyExec(response, WordsOf(key))
  IN  IF IsNull(m) THEN Null ELSE Some(Trim(Val(m)))

\* A JS string used as a condition: null and '' are falsy.
Truthy(optStr) == ~IsNull(optStr) /\ Val(optStr) # EmptyStr

\* lines.filter(l => l.trim())
RECURSIVE NonBlankLines(_)
NonBlankLines(lines) ==
  IF lines = <<>> THEN <<>>
  ELSE IF Trim(Head(lines)) # EmptyStr
    THEN <<Head(lines)>> \o NonBlankLines(Tail(lines))
  ELSE NonBlankLines(Tail(lines))

\* result.rawFields after the loop over the table: one raw value for each
\* row whose expression matched; no row writes 'decision'.
RawFields(response) ==
  [k \in RawKeys |-> IF k \in KeyNames THEN RawValue(response, k) ELSE Null]

\* rawValue.split(',').map(a => a.trim())
AttendeeList(rawValue) ==
  LET list == Split(rawValue, ",")
  IN  [i \in 1..Len(list) |-> Trim(list[i])]

\* `result` after the loop, given the raw values the loop found.
FieldsOf(raw) ==
  [ agent      |-> raw.agent,
    confidence |-> IF IsNull(raw.confidence) THEN Null
                   ELSE Some(parseFloat(Val(raw.confidence))),
    reasoning  |-> raw.reasoning,
    recipient  |-> raw.recipient,
    message    |-> raw.message,
    title      |-> raw.title,
    attendees  |-> IF IsNull(raw.attendees) THEN Null
                   ELSE Some(AttendeeList(Val(raw.attendees))),
    datetime   |-> raw.datetime,
    urgency    |-> raw.urgency,
    yesNo      |-> Null,
    rawFields  |-> raw ]

\* The state of `result` after the loop over the table.
MarkerFields(response) == FieldsOf(RawFields(response))

Yes == <<"Y","E","S">>
No == <<"N","O">>

\* The YES/NO check that follows the loop.
YesNoFallback(response, result) ==
  LET lines     == NonBlankLines(Split(response, "\n"))
      firstLine == ToUpperCase(lines[1])
      rest      == Trim(Join(Tail(lines), <<" ">>))
      withReason(r) == IF Len(lines) > 1 /\ ~Truthy(r.reasoning)
                         THEN [r EXCEPT !.reasoning = Some(rest)]
                         ELSE r
  IN  IF Truthy(result.rawFields["decision"]) \/ Len(lines) = 0 THEN result
      ELSE IF Includes(firstLine, Yes)
        THEN withReason([result EXCEPT !.yesNo = Some(TRUE),
                                       !.rawFields["decision"] = Some(Yes)])
      ELSE IF Includes(firstLine, No)
        THEN withReason([result EXCEPT !.yesNo = Some(FALSE),
                                       !.rawFields["decision"] = Some(No)])
      ELSE result

\* response: string | undefined, as an option value.
parseDecisionFromResponse(response) ==
  IF ~Truthy(response) THEN EmptyDecision
  ELSE YesNoFallback(Val(response), MarkerFields(Val(response)))

----------------------------------------------------------------------------
(* Session functions *)

\* How a call of the manual API ended: it returned, or it threw an Error
\* with the given message.
Returned(op) == [op |-> op, threw |-> Null]
Threw(op, message) == [op |-> op, threw |-> Some(message)]

SessionNames == {"Decision Agent"}

\* The Session literal built by startSession.
NewSession(id, name, metadata) ==
  [ sessionId |-> id,
    name      |-> name,
    startedAt |-> NowISO,
    endedAt   |-> Null,
    status    |-> "running",
    metadata  |-> metadata,
    steps     |-> <<>> ]

\* randomUUID(): an identifier no earlier object carries.
FreshSessionId == Len(sessions) + 1

\* A startSession that leaves a session that is already current in place.
startSessionKeepsCurrent(name, metadata) ==
  /\ sessions' = Append(sessions, NewSession(FreshSessionId, name, metadata))
  /\ currentSession' = IF IsNull(currentSession) THEN Some(Len(sessions) + 1)
                                                ELSE currentSession
  /\ lastCall' = Returned("startSession")
  /\ UNCHANGED <<tick, steps, paramsHeap, calls, fetches, store>>

startSession(name, metadata) ==
  /\ sessions' = Append(sessions, NewSession(FreshSessionId, name, metadata))
  /\ currentSession' = Some(Len(sessions) + 1)
  /\ lastCall' = Returned("startSession")
  /\ UNCHANGED <<tick, steps, paramsHeap, calls, fetches, store>>

\* The fields endSession writes on the current session.
EndedSession(session, status) ==
  [session EXCEPT !.endedAt = Some(NowISO), !.status = status]

endSession(status) ==
  /\ IF IsNull(currentSession)
       THEN UNCHANGED sessions
       ELSE sessions' = [sessions EXCEPT ![Val(currentSession)] =
                           EndedSession(@, status)]
  /\ lastCall' = Returned("endSession")
  /\ UNCHANGED <<tick, currentSession, steps, paramsHeap, calls, fetches, store>>

getSession == currentSession

\* JSON.stringify(session): the session with its Step objects written out.
Serialize(session) ==
  [session EXCEPT !.steps = [k \in 1..Len(session.steps) |-> steps[session.steps[k]]]]

SessionsUrl == "/api/sessions"
ObservationsUrl == "/api/observations"

\* fetch(url, {method: 'POST', body}): the request leaves; nothing waits for it.
Fetch(log, url, body) ==
  Append(log, [url |-> url, method |-> "POST", body |-> body, state |-> "inflight",
               status |-> Null, logged |-> Null])

exportSession ==
  /\ IF IsNull(currentSession)
       THEN UNCHANGED fetches
       ELSE fetches' = Fetch(fetches, SessionsUrl,
                             Serialize(sessions[Val(currentSession)]))
  /\ lastCall' = Returned("exportSession")
  /\ UNCHANGED <<tick, sessions, currentSession, steps, paramsHeap, calls, store>>

----------------------------------------------------------------------------
(* Step functions *)

NoSessionError == "No session! Call startSession first."

\* The Step literal built by startStep.
NewStep(id, name, type) ==
  [ stepId       |-> id,
    sessionId    |-> sessions[Val(currentSession)].sessionId,
    name         |-> name,
    type         |-> type,
    startedAt    |-> NowISO,
    endedAt      |-> Null,
    durationMs   |-> Null,
    input        |-> [kind |-> "empty"],
    output       |-> [kind |-> "empty"],
    reasoning    |-> Null,
    observations |-> <<>>,
    events       |-> <<>>,
    metrics      |-> << >> ]

\* A push onto the steps list of the session created first.
PushStepOnFirst(ss, stepRef) ==
  [ss EXCEPT ![1].steps = Append(@, stepRef)]

\* currentSession.steps.push(step)
PushStep(ss, stepRef) ==
  [ss EXCEPT ![Val(currentSession)].steps = Append(@, stepRef)]

\* A startStep that returns without a Step when no session is current.
startStepSilent(name, type) ==
  /\ IF IsNull(currentSession)
       THEN /\ lastCall' = Returned("startStep")
            /\ UNCHANGED <<sessions, steps>>
       ELSE /\ steps' = Append(steps, NewStep(Len(steps) + 1, name, type))
            /\ sessions' = PushStep(sessions, Len(steps) + 1)
            /\ lastCall' = Returned("startStep")
  /\ UNCHANGED <<tick, currentSession, paramsHeap, calls, fetches, store>>

startStep(name, type) ==
  /\ IF IsNull(currentSession)
       THEN /\ lastCall' = Threw("startStep", NoSessionError)
            /\ UNCHANGED <<sessions, steps>>
       ELSE /\ steps' = Append(steps, NewStep(Len(steps) + 1, name, type))
            /\ sessions' = PushStep(sessions, Len(steps) + 1)
            /\ lastCall' = Returned("startStep")
  /\ UNCHANGED <<tick, currentSession, paramsHeap, calls, fetches, store>>

\* endStep, setInput, setOutput, setReasoning, addObservation, addEvent and
\* addMetric take a Step object and write to it; each is given here as the
\* Step after the call.

\* An endStep that keeps a duration the Step already has.
endStepKeepsDuration(step) ==
  LET endedAt == NowISO
      start   == GetTime(step.startedAt)
      end     == GetTime(endedAt)
  IN  [step EXCEPT !.endedAt = Some(endedAt),
                   !.durationMs = IF IsNull(@) THEN Some(MsNumber(end - start))
                                  ELSE @]

endStep(step) ==
  LET endedAt == NowISO
      start   == GetTime(step.startedAt)
      end     == GetTime(endedAt)
  IN  [step EXCEPT !.endedAt = Some(endedAt),
                   !.durationMs = Some(MsNumber(end - start))]

setInput(step, input) == [step EXCEPT !.input = input]

setOutput(step, output) == [step EXCEPT !.output = output]

setReasoning(step, reasoning) == [step EXCEPT !.reasoning = Some(reasoning)]

\* `x || null` on an optional string: absent and '' both give null.
OrNull(opt) == IF Truthy(opt) THEN opt ELSE Null

\* `obs.score || null`: absent, 0 and NaN give null.
ScoreOrNull(opt) ==
  IF ~IsNull(opt) /\ ~Val(opt).nan /\ Val(opt).milli # 0 THEN opt ELSE Null

\* `obs.children || null`: an array, even an empty one, is kept.
ChildrenOrNull(opt) == opt

\* `obs.data || {}`
DataOrEmpty(opt) == IF IsNull(opt) THEN [kind |-> "empty"] ELSE Val(opt)

\* An addObservation that replaces the entry with the same id, if any.
addObservationById(step, obs) ==
  LET same == {k \in DOMAIN step.observations : step.observations[k].id = obs.id}
  IN  IF same = {} THEN [step EXCEPT !.observations = Append(@, obs)]
      ELSE [step EXCEPT !.observations =
              [k \in DOMAIN @ |-> IF k \in same THEN obs ELSE @[k]]]

addObservation(step, obs) ==
  [step EXCEPT !.observations = Append(@,
     [ id       |-> obs.id,
       type     |-> obs.type,
       label    |-> obs.label,
       data     |-> DataOrEmpty(obs.data),
       result   |-> OrNull(obs.result),
       reason   |-> OrNull(obs.reason),
       score    |-> ScoreOrNull(obs.score),
       children |-> ChildrenOrNull(obs.children) ])]

addEvent(step, type, message, data) ==
  [step EXCEPT !.events = Append(@,
     [ timestamp |-> NowISO,
       type      |-> type,
       message   |-> message,
       data      |-> data ])]

\* An addMetric that keeps the value a name already has.
addMetricKeepsFirst(step, name, value) ==
  [step EXCEPT !.metrics =
     [n \in (DOMAIN step.metrics) \cup {name} |->
        IF n \in DOMAIN step.metrics THEN step.metrics[n] ELSE value]]

\* step.metrics[name] = value; the map is a set of <<name, value>> pairs
\* with one pair per name, written as a function on the names present.
addMetric(step, name, value) ==
  [step EXCEPT !.metrics =
     [n \in (DOMAIN step.metrics) \cup {name} |->
        IF n = name THEN value ELSE step.metrics[n]]]

StepNames == {"data_processing"}

\* The stages of a pipeline that records by hand, one Step each.
StageNames == {"keyword_generation", "candidate_search"}

\* The metrics a stage reports.
MetricNames == {"total_found", "fetched"}
MetricValues == {0, 2847}

\* A recording call that returned: the Step object it was given and its
\* argument.
Recorded(op, i, arg) == [op |-> op, threw |-> Null, step |-> i, arg |-> arg]

\* The observation literals a stage passes to addObservation: two with the
\* same id, one with another.
ObservationLiterals(stage) ==
  { [ id |-> id, type |-> "candidate", label |-> label,
      data |-> Some([stage |-> stage]), result |-> Null, reason |-> Null,
      score |-> Null, children |-> Null ] :
    id \in {"cand_1"}, label \in {"first look", "second look"} }
  \cup
  { [ id |-> "cand_2", type |-> "candidate", label |-> "first look",
      data |-> Some([stage |-> stage]), result |-> Null, reason |-> Null,
      score |-> Null, children |-> Null ] }

\* The manual recording calls on the Step object with reference i.
SetInput(i, input) ==
  /\ steps' = [steps EXCEPT ![i] = setInput(@, input)]
  /\ lastCall' = Recorded("setInput", i, input)
  /\ UNCHANGED <<tick, sessions, currentSession, paramsHeap, calls, fetches, store>>

SetOutput(i, output) ==
  /\ steps' = [steps EXCEPT ![i] = setOutput(@, output)]
  /\ lastCall' = Recorded("setOutput", i, output)
  /\ UNCHANGED <<tick, sessions, currentSession, paramsHeap, calls, fetches, store>>

SetReasoning(i, reasoning) ==
  /\ steps' = [steps EXCEPT ![i] = setReasoning(@, reasoning)]
  /\ lastCall' = Recorded("setReasoning", i, [text |-> reasoning])
  /\ UNCHANGED <<tick, sessions, currentSession, paramsHeap, calls, fetches, store>>

AddObservation(i, obs) ==
  /\ steps' = [steps EXCEPT ![i] = addObservation(@, obs)]
  /\ lastCall' = Recorded("addObservation", i, obs)
  /\ UNCHANGED <<tick, sessions, currentSession, paramsHeap, calls, fetches, store>>

\* An addEvent that writes to the Step created first, whichever it is given.
AddEventOnFirst(i, type, message) ==
  /\ steps' = [steps EXCEPT ![1] = addEvent(@, type, message, Null)]
  /\ lastCall' = Recorded("addEvent", i, [type |-> type, message |-> message])
  /\ UNCHANGED <<tick, sessions, currentSession, paramsHeap, calls, fetches, store>>

AddEvent(i, type, message) ==
  /\ steps' = [steps EXCEPT ![i] = addEvent(@, type, message, Null)]
  /\ lastCall' = Recorded("addEvent", i, [type |-> type, message |-> message])
  /\ UNCHANGED <<tick, sessions, currentSession, paramsHeap, calls, fetches, store>>

AddMetric(i, name, value) ==
  /\ steps' = [steps EXCEPT ![i] = addMetric(@, name, value)]
  /\ lastCall' = Recorded("addMetric", i, [name |-> name, value |-> value])
  /\ UNCHANGED <<tick, sessions, currentSession, paramsHeap, calls, fetches, store>>

\* The manual endStep call on the Step object with reference i.
EndStep(i) ==
  /\ steps' = [steps EXCEPT ![i] = endStep(@)]
  /\ lastCall' = Returned("endStep")
  /\ UNCHANGED <<tick, sessions, currentSession, paramsHeap, calls, fetches, store>>

----------------------------------------------------------------------------
(* Spans of the tracing layer.  Times are HrTime pairs <<seconds, nanos>>. *)

HrTime(ns) == <<ns \div NsPerSec, ns % NsPerSec>>

\* hrTimeDuration(start, end)
HrDuration(start, end) ==
  IF end[2] >= start[2]
    THEN <<end[1] - start[1], end[2] - start[2]>>
    ELSE <<end[1] - start[1] - 1, end[2] - start[2] + NsPerSec>>

\* t[0] * 1000 + t[1] / 1e6: milliseconds with their fraction.
HrToMs(t) == t[1] * 1000 * NsPerMs + t[2]

\* tracer.startSpan(name, {kind, attributes})
StartSpan(id, name, attributes) ==
  [ name       |-> name,
    kind       |-> "CLIENT",
    spanId     |-> id,
    traceId    |-> id,
    parentSpanId |-> Null,
    startTime  |-> HrTime(NowNs),
    endTime    |-> Null,
    duration   |-> Null,
    attributes |-> attributes,
    status     |-> [code |-> "UNSET", message |-> Null],
    exceptions |-> <<>>,
    ended      |-> 0 ]

\* span.end(): the first call stamps the end time; the span counts its calls.
SpanEnd(span) ==
  IF span.ended > 0 THEN [span EXCEPT !.ended = @ + 1]
  ELSE [span EXCEPT !.endTime  = Some(HrTime(NowNs)),
                    !.duration = Some(HrDuration(span.startTime, HrTime(NowNs))),
                    !.ended    = 1]

----------------------------------------------------------------------------
(* XRaySpanProcessor *)

\* `${(confidence * 100).toFixed(0)}`: the nearest integer, halves away
\* from zero, as decimal digits.
RECURSIVE NatToStr(_)
NatToStr(n) ==
  IF n < 10 THEN <<Digits[n + 1]>>
  ELSE NatToStr(n \div 10) \o <<Digits[(n % 10) + 1]>>

PercentToFixed0(number) ==
  LET m == number.milli
  IN  IF m >= 0 THEN NatToStr((m + 5) \div 10)
      ELSE <<"-">> \o NatToStr(((0 - m) + 5) \div 10)

\* A JS number used as a condition: null, 0 and NaN are falsy.
TruthyNumber(opt) == ~IsNull(opt) /\ ~Val(opt).nan /\ Val(opt).milli # 0

\* The reasoning onEnd gives the Step, or Null when it sets none.
ProjectedReasoning(parsed) ==
  LET agentPart == IF Truthy(parsed.agent)
                     THEN << <<"Selected agent: ">> \o Val(parsed.agent) >>
                     ELSE <<>>
      confPart  == IF TruthyNumber(parsed.confidence)
                     THEN << <<"Confidence: ">>
                               \o PercentToFixed0(Val(parsed.confidence))
                               \o <<"%">> >>
                     ELSE <<>>
      parts     == agentPart \o confPart
  IN  IF Truthy(parsed.reasoning) THEN parsed.reasoning
      ELSE IF (Truthy(parsed.agent) \/ TruthyNumber(parsed.confidence))
              /\ Len(parts) > 0
        THEN Some(Join(parts, <<" | ">>))
      ELSE Null

\* An exportObservation that sends its request twice.
exportObservationTwice(log, step) ==
  LET body == [ sessionId   |-> step.sessionId,
                sessionName |-> sessions[Val(currentSession)].name,
                step        |-> step ]
  IN  Fetch(Fetch(log, ObservationsUrl, body), ObservationsUrl, body)

\* exportObservation(step): the request it sends.
exportObservation(log, step) ==
  Fetch(log, ObservationsUrl,
        [ sessionId   |-> step.sessionId,
          sessionName |-> IF IsNull(currentSession)
                            THEN "Unknown Session"
                            ELSE sessions[Val(currentSession)].name,
          step        |-> step ])

\* `if (parsedDecision.reasoning) ... else if (...) ...` on the Step.
WithReasoning(step, reasoning) ==
  IF IsNull(reasoning) THEN step ELSE setReasoning(step, Val(reasoning))

\* `if (model) addEvent(step, 'info', ...)`
WithModelEvent(step, model) ==
  IF Truthy(model)
    THEN addEvent(step, "info", <<"Model used: ">> \o Val(model), Null)
    ELSE step

\* `if (parsedDecision.agent) addEvent(step, 'decision', ...)`
WithAgentEvent(step, parsed) ==
  IF Truthy(parsed.agent)
    THEN addEvent(step, "decision",
                  <<"Agent selected: ">> \o Val(parsed.agent),
                  Some([ confidence |-> parsed.confidence,
                         reason     |-> parsed.reasoning ]))
    ELSE step

\* The Step with the span's own times written over those of startStep.
WithSpanTimes(step, span) ==
  [step EXCEPT !.startedAt  = TimeClip(HrToMs(span.startTime)),
               !.endedAt    = Some(TimeClip(HrToMs(Val(span.endTime)))),
               !.durationMs = Some(HrToMs(Val(span.duration)))]

\* The observation onEnd adds for the span.
SpanObservation(span, parsed) ==
  [ id       |-> <<"span_", span.spanId>>,
    type     |-> "llm_decision",
    label    |-> "LLM Decision",
    data     |-> Some([ traceId        |-> span.traceId,
                        spanId         |-> span.spanId,
                        parentId       |-> span.parentSpanId,
                        prompt         |-> span.attributes.requestMessage,
                        response       |-> span.attributes.responseText,
                        parsedDecision |-> parsed,
                        status         |-> span.status ]),
    result   |-> Null,
    reason   |-> Null,
    score    |-> Null,
    children |-> Null ]

\* The statements of onEnd from startStep to endStep, in their order, given
\* the decision parsed from the response text.
BuildStep(id, span, parsed) ==
  LET attributes == span.attributes
      prompt     == attributes.requestMessage
      response   == attributes.responseText
      model      == attributes.requestModel
      s1 == WithSpanTimes(NewStep(id, span.name, "auto_instrumented"), span)
      s2 == setInput(s1, [ prompt        |-> OrNull(prompt),
                           model         |-> OrNull(model),
                           rawAttributes |-> attributes ])
      s3 == setOutput(s2, [ response       |-> OrNull(response),
                            parsedDecision |-> parsed ])
      s4 == WithReasoning(s3, ProjectedReasoning(parsed))
      s5 == addObservation(s4, SpanObservation(span, parsed))
      s6 == WithModelEvent(s5, model)
      s7 == WithAgentEvent(s6, parsed)
  IN  endStep(s7)

\* The Step onEnd builds for a finished span, up to and including endStep.
ProjectedStep(id, span) ==
  BuildStep(id, span, parseDecisionFromResponse(span.attributes.responseText))

\* A placement that puts the new Step in front of the session's Steps.
PlacedAtFront(id, step) ==
  [ sessions |-> [sessions EXCEPT ![Val(currentSession)].steps = <<id>> \o @],
    steps    |-> Append(steps, step),
    fetches  |-> exportObservation(fetches, step) ]

\* The SDK state and the request log once `step` is in place and exported.
Placed(id, step) ==
  [ sessions |-> PushStep(sessions, id),
    steps    |-> Append(steps, step),
    fetches  |-> exportObservation(fetches, step) ]

\* An onEnd that exports an observation for a span it cannot place.
onEndExportsUnplaced(span) ==
  IF IsNull(currentSession)
    THEN [ sessions |-> sessions, steps |-> steps,
           fetches  |-> Fetch(fetches, ObservationsUrl,
                              [ sessionId   |-> Null,
                                sessionName |-> "Unknown Session",
                                step        |-> span.name ]) ]
    ELSE Placed(Len(steps) + 1, ProjectedStep(Len(steps) + 1, span))

\* onEnd(span): the SDK state and the request log after the call.
onEnd(span) ==
  IF IsNull(currentSession)
    THEN [sessions |-> sessions, steps |-> steps, fetches |-> fetches]
    ELSE Placed(Len(steps) + 1, ProjectedStep(Len(steps) + 1, span))

----------------------------------------------------------------------------
(* instrumentCohere: the wrapped chat method.  A prompt is a sequence of   *)
(* text chunks; string concatenation is concatenation of the sequences.    *)

Directive ==
  "\n\nIMPORTANT: After your response, please explain your reasoning. Start the explanation on a new line with \"REASON: \"."

\* The argument objects callers build.
ParamsLiterals ==
  { [ message     |-> Some(<<"Hello, world!">>),
      model       |-> Some(<<"command-r7b-12-2024">>),
      temperature |-> Some(3) ],
    [ message     |-> Some(EmptyStr),
      model       |-> Null,
      temperature |-> Null ] }

\* The response texts the underlying client answers with.
Responses ==
  { <<"H","i","\n","R","E","A","S","O","N",":"," ","o","k">>,
    <<"A","G","E","N","T",":"," ","s">>,
    EmptyStr }

Errors == {"ECONNRESET"}

\* The pieces model output around a reasoning line is made of; a text is
\* the pieces named by a word over their indexes, one after another.
Fragments ==
  << <<"H","i">>, <<"\n">>, <<"R","E","A","S","O","N">>,
     <<"R","e","a","s","o","n">>, <<":">>, <<" ">>, <<"*">> >>

RECURSIVE TextOf(_)
TextOf(word) ==
  IF word = <<>> THEN EmptyStr
  ELSE Fragments[Head(word)] \o TextOf(Tail(word))

\* params.message after the injection.
Inject(message) ==
  IF Truthy(message) THEN Some(Val(message) \o <<Directive>>) ELSE message

\* The attributes startSpan is given.
RequestAttributes(params, originalMessage) ==
  [ system               |-> "cohere",
    requestModel         |-> params.model,
    requestMessage       |-> originalMessage,
    requestTemperature   |-> params.temperature,
    responseText         |-> Null,
    responseReasoning    |-> Null,
    responseFinishReason |-> Null ]

\* A wrapper that opens its span before it appends the directive.
chatOpensSpanFirst(heap, r) ==
  LET params          == heap[r]
      originalMessage == params.message
      injected        == Inject(params.message)
      span            == StartSpan(Len(calls) + 1, "cohere.chat",
                                   RequestAttributes(params, originalMessage))
  IN  /\ paramsHeap' = [heap EXCEPT ![r].message = injected]
      /\ calls' = Append(calls,
           [ params      |-> r,
             sent        |-> injected,
             invocations |-> 1,
             pc          |-> "awaiting",
             answer      |-> <<>>,
             response    |-> Null,
             rejection   |-> Null,
             result      |-> Null,
             thrown      |-> Null,
             span        |-> span,
             trace       |-> <<"startSpan">>
                               \o (IF Truthy(params.message) THEN <<"inject">> ELSE <<>>)
                               \o <<"invoke">> ])
      /\ UNCHANGED <<tick, sessions, currentSession, steps, lastCall, fetches, store>>

\* The wrapper up to its `await`: heap is the heap holding the argument
\* object, r the reference passed as args[0].
chat(heap, r) ==
  LET params          == heap[r]
      originalMessage == params.message
      injected        == Inject(params.message)
      span            == StartSpan(Len(calls) + 1, "cohere.chat",
                                   RequestAttributes(params, originalMessage))
  IN  /\ paramsHeap' = [heap EXCEPT ![r].message = injected]
      /\ calls' = Append(calls,
           [ params      |-> r,
             sent        |-> injected,
             invocations |-> 1,
             pc          |-> "awaiting",
             answer      |-> <<>>,
             response    |-> Null,
             rejection   |-> Null,
             result      |-> Null,
             thrown      |-> Null,
             span        |-> span,
             trace       |-> (IF Truthy(params.message) THEN <<"inject">> ELSE <<>>)
                               \o <<"startSpan", "invoke">> ])
      /\ UNCHANGED <<tick, sessions, currentSession, steps, lastCall, fetches, store>>

\* A caller passes a new object literal.
chatNew(literal) == chat(Append(paramsHeap, literal), Len(paramsHeap) + 1)

\* A caller passes an object it has passed before.
chatAgain(r) == chat(paramsHeap, r)

\* The span after the `try` block ran to its end on `result`.
FulfilledSpan(span, result) ==
  LET text      == IF Truthy(result.text) THEN Val(result.text) ELSE EmptyStr
      reason    == ExtractReason(text)
      cleanText == CleanText(text)
  IN  [span EXCEPT
         !.attributes.responseText         = Some(cleanText),
         !.attributes.responseReasoning    = IF reason # EmptyStr THEN Some(reason) ELSE @,
         !.attributes.responseFinishReason = Some(result.finishReason),
         !.status                          = [code |-> "OK", message |-> Null]]

\* A result handed back as the underlying client gave it.
ReturnedRawResult(result) == result

\* The result object after `if (result.text) result.text = cleanText`.
ReturnedResult(result) ==
  LET text == IF Truthy(result.text) THEN Val(result.text) ELSE EmptyStr
  IN  IF Truthy(result.text) THEN [result EXCEPT !.text = Some(CleanText(text))]
      ELSE result

\* A `catch` block that records the exception and leaves the status unset.
RejectedSpanUnmarked(span, error) ==
  [span EXCEPT !.exceptions = Append(@, error)]

\* The span after the `catch` block.
RejectedSpan(span, error) ==
  [span EXCEPT !.exceptions = Append(@, error),
               !.status     = [code |-> "ERROR", message |-> Some(error)]]

\* The `finally` block: span.end(), which reports the span to the processor.
Finally(c, pc, response, rejection, result, thrown, span, events) ==
  LET ended == SpanEnd(span)
      after == onEnd(ended)
  IN  /\ calls' = [calls EXCEPT ![c] =
                     [@ EXCEPT !.pc = pc, !.response = response,
                               !.rejection = rejection,
                               !.result = result, !.thrown = thrown,
                               !.span = ended, !.trace = @ \o events]]
      /\ sessions' = after.sessions
      /\ steps' = after.steps
      /\ fetches' = after.fetches

\* While the wrapper awaits the underlying call of c, the remote model adds
\* the piece f to the answer it is composing.
answerGrows(c, f) ==
  /\ calls[c].pc = "awaiting"
  /\ calls' = [calls EXCEPT ![c].answer = Append(@, f)]
  /\ UNCHANGED <<tick, sessions, currentSession, steps, lastCall, paramsHeap,
                 fetches, store>>

\* The underlying call of c resolved with `result`.
chatFulfilled(c, result) ==
  /\ calls[c].pc = "awaiting"
  /\ Finally(c, "returned", Some(result), Null,
             Some(ReturnedResult(result)), Null,
             FulfilledSpan(calls[c].span, result),
             <<"settled", "setAttributes", "setStatus", "end", "return">>)
  /\ UNCHANGED <<tick, currentSession, lastCall, paramsHeap, store>>

\* A rejection handled without the `finally` block: the span stays open.
chatRejectedUnended(c, error) ==
  /\ calls[c].pc = "awaiting"
  /\ calls' = [calls EXCEPT ![c] =
                 [@ EXCEPT !.pc = "thrown", !.rejection = Some(error),
                           !.thrown = Some(error),
                           !.span = RejectedSpan(calls[c].span, error),
                           !.trace = @ \o <<"settled", "recordException",
                                             "setStatus", "throw">>]]
  /\ UNCHANGED <<tick, sessions, currentSession, steps, lastCall, paramsHeap,
                 fetches, store>>

\* The underlying call of c rejected with `error`.
chatRejected(c, error) ==
  /\ calls[c].pc = "awaiting"
  /\ Finally(c, "thrown", Null, Some(error), Null, Some(error),
             RejectedSpan(calls[c].span, error),
             <<"settled", "recordException", "setStatus", "end", "throw">>)
  /\ UNCHANGED <<tick, currentSession, lastCall, paramsHeap, store>>

----------------------------------------------------------------------------
(* Spans of other code.  The processor is registered with the tracing      *)
(* layer for every span, so application code that opens a span on the      *)
(* tracer and sets gen_ai.response.text itself reaches onEnd with a text   *)
(* the proxy never cleaned.                                                *)

\* The pieces of a response text with marker fields, and of a text laid
\* out from three whole marker phrases.
FieldPieces ==
  << <<"\n">>, <<" ">>, <<"Y","E","S">>, <<"R","E","A","S","O","N",":">>,
     <<"n","o","w">>, <<"C","O","N","F","I","D","E","N","C","E",":">>,
     <<"0">> >>

AgentPhrase == <<"A","G","E","N","T",":"," ","s","l","a","c","k","_","d","m">>

ConfidencePhrase == <<"C","O","N","F","I","D","E","N","C","E",":"," ","0",".","8">>

ReasonPhrase ==
  <<"R","E","A","S","O","N",":"," ","m","a","t","c","h","e","d"," ",
    "k","e","y","w","o","r","d","s">>

Phrases == {AgentPhrase, ConfidencePhrase, ReasonPhrase}

LayoutPieces == << <<"\n">>, <<" ">>, AgentPhrase, ConfidencePhrase, ReasonPhrase >>

\* The text spelled by a word over the indexes of `pieces`.
RECURSIVE Spell(_, _)
Spell(pieces, word) ==
  IF word = <<>> THEN EmptyStr
  ELSE pieces[Head(word)] \o Spell(pieces, Tail(word))

\* tracer.startSpan(name) by application code.
spanOpened(name) ==
  /\ calls' = Append(calls,
       [ params      |-> 0,
         sent        |-> Null,
         invocations |-> 0,
         pc          |-> "open",
         answer      |-> <<>>,
         response    |-> Null,
         rejection   |-> Null,
         result      |-> Null,
         thrown      |-> Null,
         span        |-> StartSpan(Len(calls) + 1, name,
                                   [ system               |-> "custom",
                                     requestModel         |-> Null,
                                     requestMessage       |-> Null,
                                     requestTemperature   |-> Null,
                                     responseText         |-> Null,
                                     responseReasoning    |-> Null,
                                     responseFinishReason |-> Null ]),
         trace       |-> <<"startSpan">> ])
  /\ UNCHANGED <<tick, sessions, currentSession, steps, lastCall, paramsHeap,
                 fetches, store>>

\* The application composes the text it will put on its span c.
spanTextGrows(c, f) ==
  /\ calls[c].pc = "open"
  /\ calls' = [calls EXCEPT ![c].answer = Append(@, f)]
  /\ UNCHANGED <<tick, sessions, currentSession, steps, lastCall, paramsHeap,
                 fetches, store>>

\* span.setAttribute('gen_ai.response.text', text); span.end()
spanEnded(c, text) ==
  /\ calls[c].pc = "open"
  /\ Finally(c, "ended", Null, Null, Null, Null,
             [calls[c].span EXCEPT !.attributes.responseText = Some(text)],
             <<"setAttributes", "end">>)
  /\ UNCHANGED <<tick, currentSession, lastCall, paramsHeap, store>>

----------------------------------------------------------------------------
(* The collector (packages/api) and the network between it and the SDK *)

\* app.post('/api/sessions'): the store after the request.
PostSession(body) ==
  IF body.name = "" THEN store
  ELSE [id \in (DOMAIN store) \cup {body.sessionId} |->
          IF id = body.sessionId THEN body ELSE store[id]]

\* The status the collector answers a request with: 201 or 400 from the
\* sessions route, 404 for a path that has no route.
StatusFor(url, body) ==
  IF url = SessionsUrl THEN (IF body.name = "" THEN 400 ELSE 201) ELSE 404

\* GET /api/sessions/:id: the stored session, or 404 when there is none.
GetSession(id) ==
  IF id \in DOMAIN store
    THEN [status |-> 200, body |-> Some(store[id])]
    ELSE [status |-> 404, body |-> Null]

\* What the SDK logs about a response: response.ok is a 2xx status.
LogFor(status) ==
  IF status >= 200 /\ status <= 299 THEN "exported" ELSE "failed to export"

\* A request reaches the collector and is routed; the response comes back
\* and the SDK logs it.
collectorReceive(f) ==
  /\ fetches[f].state = "inflight"
  /\ fetches' = [fetches EXCEPT ![f] =
        [@ EXCEPT !.state  = "delivered",
                  !.status = Some(StatusFor(fetches[f].url, fetches[f].body)),
                  !.logged = Some(LogFor(StatusFor(fetches[f].url,
                                                   fetches[f].body)))]]
  /\ store' = IF fetches[f].url = SessionsUrl
                THEN PostSession(fetches[f].body)
                ELSE store
  /\ UNCHANGED <<tick, sessions, currentSession, steps, lastCall, paramsHeap, calls>>

\* A lost request that is sent again.
fetchFailsAndResends(f) ==
  /\ fetches[f].state = "inflight"
  /\ fetches' = Append([fetches EXCEPT ![f].state = "failed"], fetches[f])
  /\ UNCHANGED <<tick, sessions, currentSession, steps, lastCall, paramsHeap, calls,
                 store>>

\* A request is lost on the way: fetch rejects, the SDK logs and goes on.
fetchFails(f) ==
  /\ fetches[f].state = "inflight"
  /\ fetches' = [fetches EXCEPT ![f] =
        [@ EXCEPT !.state = "failed", !.logged = Some("export error")]]
  /\ UNCHANGED <<tick, sessions, currentSession, steps, lastCall, paramsHeap, calls,
                 store>>

----------------------------------------------------------------------------
(* The system *)

Tick ==
  /\ tick' = tick + 1
  /\ UNCHANGED <<sessions, currentSession, steps, lastCall, paramsHeap, calls,
                 fetches, store>>

Init ==
  /\ tick = 0
  /\ sessions = <<>>
  /\ currentSession = Null
  /\ steps = <<>>
  /\ lastCall = Returned("none")
  /\ paramsHeap = <<>>
  /\ calls = <<>>
  /\ fetches = <<>>
  /\ store = << >>

Statuses == {"completed", "failed"}

\* The result objects the underlying client resolves with.
Results == {[text |-> Some(t), finishReason |-> "COMPLETE"] : t \in Responses}

\* Room left in the model for one more Step.
StepRoom == IsNull(currentSession) \/ Len(steps) < MaxSteps

\* The manual Session/Step API, driven by pipeline code.
Next ==
  \/ tick < MaxTicks /\ Tick
  \/ Len(sessions) < MaxSessions /\ \E n \in SessionNames : startSession(n, "user")
  \/ \E s \in Statuses : endSession(s)
  \/ Len(steps) < MaxSteps /\ \E n \in StepNames : startStep(n, "custom")
  \/ \E i \in DOMAIN steps : EndStep(i)

Spec == Init /\ [][Next]_vars

\* Sessions and their export to the collector.
ExportNext ==
  \/ tick < MaxTicks /\ Tick
  \/ Len(sessions) < MaxSessions /\ \E n \in SessionNames : startSession(n, "user")
  \/ \E s \in Statuses : endSession(s)
  \/ Len(fetches) < MaxFetches /\ exportSession

SpecExport == Init /\ [][ExportNext]_vars

\* One wrapped chat call against the clock: its span is projected into the
\* session that is current when it finishes.
ProxyNext ==
  \/ tick < MaxTicks /\ Tick
  \/ Len(sessions) < MaxSessions /\ \E n \in SessionNames : startSession(n, "user")
  \/ Len(calls) < MaxTimedCalls /\ \E l \in ParamsLiterals : chatNew(l)
  \/ StepRoom /\ \E c \in DOMAIN calls, result \in Results : chatFulfilled(c, result)
  \/ StepRoom /\ \E c \in DOMAIN calls, e \in Errors : chatRejected(c, e)

SpecProxy == Init /\ [][ProxyNext]_vars

\* Several wrapped chat calls, overlapping each other, before and after the
\* one session starts, within one reading of the clock.
CallsNext ==
  \/ IsNull(currentSession) /\ \E n \in SessionNames : startSession(n, "user")
  \/ Len(calls) < MaxCalls /\ \E l \in ParamsLiterals : chatNew(l)
  \/ Len(calls) < MaxCalls /\ \E r \in DOMAIN paramsHeap : chatAgain(r)
  \/ StepRoom /\ \E c \in DOMAIN calls, result \in Results : chatFulfilled(c, result)
  \/ StepRoom /\ \E c \in DOMAIN calls, e \in Errors : chatRejected(c, e)

SpecCalls == Init /\ [][CallsNext]_vars

\* Both producers of Steps: startStep calls and finished spans.
StepsNext ==
  \/ Len(sessions) < MaxSessions /\ \E n \in SessionNames : startSession(n, "user")
  \/ Len(steps) < MaxSteps /\ \E n \in StepNames : startStep(n, "custom")
  \/ Len(calls) < MaxTimedCalls /\ \E l \in ParamsLiterals : chatNew(l)
  \/ StepRoom /\ \E c \in DOMAIN calls, result \in Results : chatFulfilled(c, result)
  \/ StepRoom /\ \E c \in DOMAIN calls, e \in Errors : chatRejected(c, e)

SpecSteps == Init /\ [][StepsNext]_vars

\* One wrapped chat call and the text the underlying client answers with.
StripNext ==
  \/ calls = <<>> /\ \E l \in ParamsLiterals : chatNew(l)
  \/ \E c \in DOMAIN calls, f \in DOMAIN Fragments :
       Len(calls[c].answer) < MaxFrags /\ answerGrows(c, f)
  \/ \E c \in DOMAIN calls :
       chatFulfilled(c, [ text         |-> Some(TextOf(calls[c].answer)),
                          finishReason |-> "COMPLETE" ])

SpecStrip == Init /\ [][StripNext]_vars

\* A span of application code carrying a response text with marker fields.
ParseNext ==
  \/ IsNull(currentSession) /\ \E n \in SessionNames : startSession(n, "user")
  \/ calls = <<>> /\ spanOpened("llm.call")
  \/ \E c \in DOMAIN calls, f \in DOMAIN FieldPieces :
       Len(calls[c].answer) < MaxPieces /\ spanTextGrows(c, f)
  \/ \E c \in DOMAIN calls : spanEnded(c, Spell(FieldPieces, calls[c].answer))

SpecParse == Init /\ [][ParseNext]_vars

\* A span of application code carrying a text laid out from the three
\* marker phrases, each at most once, line breaks and blanks.
LayoutNext ==
  \/ IsNull(currentSession) /\ \E n \in SessionNames : startSession(n, "user")
  \/ calls = <<>> /\ spanOpened("llm.call")
  \/ \E c \in DOMAIN calls, f \in DOMAIN LayoutPieces :
       /\ Len(calls[c].answer) < MaxLayout
       /\ LayoutPieces[f] \in Phrases =>
            \A k \in DOMAIN calls[c].answer : calls[c].answer[k] # f
       /\ spanTextGrows(c, f)
  \/ \E c \in DOMAIN calls : spanEnded(c, Spell(LayoutPieces, calls[c].answer))

SpecLayout == Init /\ [][LayoutNext]_vars

\* A pipeline of two stages; each stage adds observations to its own Step.
ObserveNext ==
  \/ IsNull(currentSession) /\ \E n \in SessionNames : startSession(n, "user")
  \/ \E n \in StageNames :
       (\A i \in DOMAIN steps : steps[i].name # n) /\ startStep(n, "custom")
  \/ \E i \in DOMAIN steps : \E o \in ObservationLiterals(steps[i].name) :
       Len(steps[i].observations) < MaxObs /\ AddObservation(i, o)

SpecObserve == Init /\ [][ObserveNext]_vars

\* Exports of both kinds and the network's answers, while the pipeline
\* goes on recording.
NetNext ==
  \/ IsNull(currentSession) /\ \E n \in SessionNames \cup {""} : startSession(n, "user")
  \/ Len(steps) < MaxSteps /\ \E n \in StepNames : startStep(n, "custom")
  \/ Len(fetches) < MaxFetches /\ exportSession
  \/ Len(calls) < MaxTimedCalls /\ \E l \in ParamsLiterals : chatNew(l)
  \/ StepRoom /\ Len(fetches) < MaxFetches
       /\ \E c \in DOMAIN calls, result \in Results : chatFulfilled(c, result)
  \/ StepRoom /\ Len(fetches) < MaxFetches
       /\ \E c \in DOMAIN calls, e \in Errors : chatRejected(c, e)
  \/ \E f \in DOMAIN fetches : collectorReceive(f)
  \/ \E f \in DOMAIN fetches : fetchFails(f)

SpecNet == Init /\ [][NetNext]_vars

\* A pipeline of two stages whose recording calls interleave; every
\* argument names the stage that passes it, and a stage numbers the events
\* it logs.
RecordNext ==
  \/ IsNull(currentSession) /\ \E n \in SessionNames : startSession(n, "user")
  \/ \E n \in StageNames :
       (\A i \in DOMAIN steps : steps[i].name # n) /\ startStep(n, "custom")
  \/ \E i \in DOMAIN steps : SetInput(i, [kind |-> "query", stage |-> steps[i].name])
  \/ \E i \in DOMAIN steps : SetOutput(i, [kind |-> "result", stage |-> steps[i].name])
  \/ \E i \in DOMAIN steps : SetReasoning(i, <<steps[i].name>>)
  \/ \E i \in DOMAIN steps : \E o \in ObservationLiterals(steps[i].name) :
       /\ o.id = "cand_2"
       /\ steps[i].observations = <<>>
       /\ AddObservation(i, o)
  \/ \E i \in DOMAIN steps :
       /\ Len(steps[i].events) < MaxEvents
       /\ AddEvent(i, "info", <<steps[i].name, Len(steps[i].events) + 1>>)
  \/ \E i \in DOMAIN steps : AddMetric(i, "fetched", Len(steps[i].name))

SpecRecord == Init /\ [][RecordNext]_vars

\* Manual Steps and one wrapped chat call against the clock: Steps are
\* started, written to, ended and ended again while a span finishes.
DurationsNext ==
  \/ tick < MaxTicks /\ Tick
  \/ IsNull(currentSession) /\ \E n \in SessionNames : startSession(n, "user")
  \/ Len(steps) < MaxSteps /\ \E n \in StepNames : startStep(n, "custom")
  \/ \E i \in DOMAIN steps : IsNull(steps[i].reasoning) /\ SetReasoning(i, <<steps[i].name>>)
  \/ \E i \in DOMAIN steps : EndStep(i)
  \/ calls = <<>> /\ \E l \in ParamsLiterals : Truthy(l.message) /\ chatNew(l)
  \/ StepRoom /\ \E c \in DOMAIN calls :
       chatFulfilled(c, [text |-> Some(EmptyStr), finishReason |-> "COMPLETE"])
  \/ StepRoom /\ \E c \in DOMAIN calls, e \in Errors : chatRejected(c, e)

SpecDurations == Init /\ [][DurationsNext]_vars

\* Overlapping wrapped chat calls while sessions replace one another; the
\* clock runs while a call is suspended, so a call may finish later and
\* under another session than it began.
RaceNext ==
  \/ tick < MaxTicks /\ (\E c \in DOMAIN calls : calls[c].pc = "awaiting") /\ Tick
  \/ Len(sessions) < MaxSessions /\ \E n \in SessionNames : startSession(n, "user")
  \/ Len(calls) < MaxCalls /\ \E l \in ParamsLiterals : Truthy(l.message) /\ chatNew(l)
  \/ StepRoom /\ \E c \in DOMAIN calls :
       chatFulfilled(c, [text |-> Some(EmptyStr), finishReason |-> "COMPLETE"])
  \/ StepRoom /\ \E c \in DOMAIN calls, e \in Errors : chatRejected(c, e)

SpecRace == Init /\ [][RaceNext]_vars

\* A pipeline of two stages reporting and revising their metrics.
MetricsNext ==
  \/ IsNull(currentSession) /\ \E n \in SessionNames : startSession(n, "user")
  \/ \E n \in StageNames :
       (\A i \in DOMAIN steps : steps[i].name # n) /\ startStep(n, "custom")
  \/ \E i \in DOMAIN steps, n \in MetricNames, v \in MetricValues : AddMetric(i, n, v)

SpecMetrics == Init /\ [][MetricsNext]_vars

----------------------------------------------------------------------------
(* Properties *)

\* C1: once a session has been ended, a further endSession call changes
\* nothing of it: endedAt keeps the timestamp of the first call and status
\* keeps the status of the first call.
EndedSessionStaysAsEnded ==
  [][\A i \in DOMAIN sessions :
       ~IsNull(sessions[i].endedAt) =>
         /\ sessions'[i].endedAt = sessions[i].endedAt
         /\ sessions'[i].status = sessions[i].status]_vars

\* The span a projected Step was built from.
SpanOf(step) == calls[step.observations[1].data.spanId].span

\* C2: a Step projected from a finished span carries the span's own times:
\* startedAt is the span's start, endedAt the span's end, and durationMs the
\* span's duration (its end minus its start, fractions of a millisecond
\* included), none of them the wall clock at projection.
ProjectedStepCarriesSpanTimes ==
  \A i \in DOMAIN steps :
    steps[i].type = "auto_instrumented" =>
      LET span == SpanOf(steps[i])
      IN  /\ steps[i].startedAt = TimeClip(HrToMs(span.startTime))
          /\ steps[i].endedAt = Some(TimeClip(HrToMs(Val(span.endTime))))
          /\ steps[i].durationMs = Some(HrToMs(Val(span.duration)))

\* C3: a startStep call made while no session is current throws the
\* precondition error, and the call creates no Step and changes no session.
StartStepNeedsSession ==
  [][(IsNull(currentSession) /\ lastCall'.op = "startStep") =>
       /\ lastCall'.threw = Some(NoSessionError)
       /\ UNCHANGED sdkVars]_vars

StartStepRefused ==
  /\ IsNull(currentSession)
  /\ lastCall = Threw("startStep", NoSessionError)
  /\ sessions = <<>>
  /\ steps = <<>>

\* The session getSession returns is the one created last.
LatestSessionIsCurrent ==
  IF sessions = <<>> THEN IsNull(getSession)
  ELSE getSession = Some(Len(sessions))

\* A step of the system that creates a session or changes the current one
\* makes a new, running, unended session with no Steps current, and leaves
\* every earlier session and every Step as it was.
StartSessionStep ==
  (Len(sessions') # Len(sessions) \/ currentSession' # currentSession) =>
    /\ Len(sessions') = Len(sessions) + 1
    /\ currentSession' = Some(Len(sessions'))
    /\ LET new == sessions'[Len(sessions')]
       IN  /\ new.status = "running"
           /\ IsNull(new.endedAt)
           /\ new.steps = <<>>
           /\ \A i \in DOMAIN sessions : new.sessionId # sessions[i].sessionId
    /\ \A i \in DOMAIN sessions : sessions'[i] = sessions[i]
    /\ steps' = steps

\* C4: startSession always replaces the current session with a new one
\* that is running, has no end time and has an empty steps list, whether or
\* not the previous session was ended; the current session is always the
\* one created by the latest startSession, and no Step of an earlier
\* session is carried into it.
StartSessionReplacesCurrent ==
  []LatestSessionIsCurrent /\ [][StartSessionStep]_vars

SessionReplacedWhileRunning ==
  /\ Len(sessions) = 2
  /\ getSession = Some(2)
  /\ sessions[1].status = "running"
  /\ sessions[1].steps # <<>>
  /\ sessions[2].steps = <<>>

\* A reasoning marker, read off the text character by character: at most
\* two emphasis characters, the letters of REASON in either case, at most
\* two emphasis characters, then a colon or a white-space character.
ReasonLetters ==
  <<{"R","r"}, {"E","e"}, {"A","a"}, {"S","s"}, {"O","o"}, {"N","n"}>>

EmphasisRun(s, p) ==
  IF p <= Len(s) /\ s[p] \in {"*", "_"}
    THEN IF p + 1 <= Len(s) /\ s[p + 1] \in {"*", "_"} THEN 2 ELSE 1
    ELSE 0

IsSeparator(ch) == ch = ":" \/ ch \in WhiteSpace

\* The position of the marker's first separator when a marker starts at p,
\* and 0 when none does.
MarkerSeparator(s, p) ==
  LET w == p + EmphasisRun(s, p)
      e == w + 6 + EmphasisRun(s, w + 6)
  IN  IF /\ e <= Len(s)
         /\ \A k \in 1..6 : s[w + k - 1] \in ReasonLetters[k]
         /\ IsSeparator(s[e])
        THEN e ELSE 0

\* The starts of the lines of s that begin with a marker.
MarkerLines(s) ==
  {p \in 1..Len(s) : (p = 1 \/ s[p - 1] = "\n") /\ MarkerSeparator(s, p) > 0}

\* The text that follows a marker whose separators start at e.
RECURSIVE AfterSeparators(_, _)
AfterSeparators(s, e) ==
  IF e <= Len(s) /\ IsSeparator(s[e]) THEN AfterSeparators(s, e + 1)
  ELSE SubSeq(s, e, Len(s))

FirstMarkerLine(s) == CHOOSE p \in MarkerLines(s) : \A q \in MarkerLines(s) : p <= q

RawText(c) == Val(Val(calls[c].response).text)

\* C5: when the text the underlying client answered with has a line that
\* begins with REASON (any letter case, optionally wrapped in * or _
\* emphasis) followed by a colon or white space, the text handed back to the
\* caller and the response text on the span are both the raw text before the
\* first such line, trimmed, and the reasoning on the span is the text after
\* that marker (its separators included), trimmed; an empty reasoning is
\* not recorded.
ReasonLineIsStripped ==
  \A c \in DOMAIN calls :
    (calls[c].pc = "returned" /\ MarkerLines(RawText(c)) # {}) =>
      LET raw    == RawText(c)
          p      == FirstMarkerLine(raw)
          before == Trim(SubSeq(raw, 1, p - 1))
          after  == Trim(AfterSeparators(raw, MarkerSeparator(raw, p)))
          attrs  == calls[c].span.attributes
      IN  /\ Val(calls[c].result).text = Some(before)
          /\ attrs.responseText = Some(before)
          /\ attrs.responseReasoning =
               IF after = EmptyStr THEN Null ELSE Some(after)

ReasonLineWasStripped ==
  \E c \in DOMAIN calls :
    /\ calls[c].pc = "returned"
    /\ MarkerLines(RawText(c)) # {}
    /\ FirstMarkerLine(RawText(c)) > 1
    /\ Val(calls[c].result).text = Some(<<"H","i">>)
    /\ calls[c].span.attributes.responseReasoning = Some(<<"H","i">>)

HasDirective(prompt) == \E k \in DOMAIN prompt : prompt[k] = Directive

\* C6: for every wrapped chat call with a prompt, calls that pass the same
\* params object again included, the prompt recorded on the span is the
\* caller's own prompt without the injected directive, and the prompt passed
\* to the underlying client is that prompt followed by exactly one copy of
\* the directive.
RecordedPromptIsCallersOwn ==
  \A c \in DOMAIN calls :
    LET recorded == calls[c].span.attributes.requestMessage
    IN  Truthy(recorded) =>
          /\ ~HasDirective(Val(recorded))
          /\ calls[c].sent = Some(Val(recorded) \o <<Directive>>)

Settled(c) == calls[c].pc \in {"returned", "thrown"}

\* C7: every wrapped chat call that has returned or thrown has ended its
\* span, and no span is ended more than once.
SettledCallEndedItsSpan ==
  \A c \in DOMAIN calls :
    /\ calls[c].span.ended <= 1
    /\ Settled(c) => calls[c].span.ended = 1

BothOutcomesEnded ==
  \E c, d \in DOMAIN calls :
    /\ calls[c].pc = "returned" /\ calls[c].span.ended = 1
    /\ calls[d].pc = "thrown" /\ calls[d].span.ended = 1

\* Event a comes before event b in the trace of a call.
Precedes(trace, a, b) ==
  \E i, j \in DOMAIN trace : i < j /\ trace[i] = a /\ trace[j] = b

\* C8: when the underlying chat call throws, the wrapper calls it no second
\* time and returns no result; it records the exception on the span, sets
\* the span status to ERROR, and throws the same error again to its caller,
\* all of this before the span is ended.
RejectionRecordedAndRethrown ==
  \A c \in DOMAIN calls :
    ~IsNull(calls[c].rejection) =>
      /\ calls[c].pc = "thrown"
      /\ calls[c].thrown = calls[c].rejection
      /\ IsNull(calls[c].result)
      /\ calls[c].invocations = 1
      /\ calls[c].span.exceptions = <<Val(calls[c].rejection)>>
      /\ calls[c].span.status.code = "ERROR"
      /\ Precedes(calls[c].trace, "recordException", "end")
      /\ Precedes(calls[c].trace, "setStatus", "end")
      /\ Precedes(calls[c].trace, "end", "throw")

RejectionWasRethrown ==
  \E c \in DOMAIN calls :
    /\ calls[c].rejection = Some("ECONNRESET")
    /\ calls[c].thrown = Some("ECONNRESET")
    /\ calls[c].span.status = [code |-> "ERROR", message |-> Some("ECONNRESET")]

\* C9: when a span finishes while no session is current, the processor
\* drops it: no session and no Step is created or changed, nothing is sent
\* to the collector, and nothing is thrown beyond what the underlying call
\* itself threw.
SpanWithoutSessionIsDropped ==
  [][\A c \in DOMAIN calls :
       (/\ IsNull(currentSession)
        /\ calls[c].span.ended = 0
        /\ calls'[c].span.ended > 0) =>
           /\ UNCHANGED <<sessions, currentSession, steps, fetches, lastCall>>
           /\ calls'[c].thrown = calls'[c].rejection]_vars

SpanDroppedWithoutSession ==
  /\ sessions = <<>>
  /\ steps = <<>>
  /\ fetches = <<>>
  /\ \E c \in DOMAIN calls : calls[c].pc = "returned" /\ calls[c].span.ended = 1

\* The places a Step holds in the steps lists of the sessions.
Owners(i) ==
  {o \in (DOMAIN sessions) \X (DOMAIN steps) :
     o[2] \in DOMAIN sessions[o[1]].steps /\ sessions[o[1]].steps[o[2]] = i}

\* Every Step is in exactly one steps list, once, and that list is the one
\* of the session whose sessionId the Step carries; the lists are in
\* creation order.
StepInOneSession ==
  /\ \A i \in DOMAIN steps :
       /\ Cardinality(Owners(i)) = 1
       /\ \A o \in Owners(i) : sessions[o[1]].sessionId = steps[i].sessionId
  /\ \A j, k \in DOMAIN sessions : j # k => sessions[j].sessionId # sessions[k].sessionId
  /\ \A j \in DOMAIN sessions : \A k, l \in DOMAIN sessions[j].steps :
       k < l => sessions[j].steps[k] < sessions[j].steps[l]

\* A steps list changes only by a new Step added at its end.
StepsOnlyAppended ==
  \A j \in DOMAIN sessions :
    LET old == sessions[j].steps
        new == sessions'[j].steps
    IN  /\ Len(new) >= Len(old)
        /\ SubSeq(new, 1, Len(old)) = old
        /\ \A k \in (Len(old) + 1)..Len(new) : new[k] \notin DOMAIN steps

\* C10: every Step, whether made by startStep or projected from a span, is
\* in the steps list of exactly one session, the session whose sessionId it
\* carries, and each steps list only grows, by appending in creation order:
\* no Step is removed or moved.
StepsBelongToOneSession ==
  []StepInOneSession /\ [][StepsOnlyAppended]_vars

StepsOfBothKindsPlaced ==
  /\ Len(sessions) = 2
  /\ sessions[1].steps = <<1>> /\ steps[1].type = "custom"
  /\ sessions[2].steps = <<2>> /\ steps[2].type = "auto_instrumented"

\* The decision onEnd parsed for a projected Step, and the text it parsed.
ParsedOf(step) == step.output.parsedDecision

ResponseOf(step) == step.output.response

\* C11: whenever the parser captured a value for an explicit REASON or
\* REASONING marker, the parsed reasoning is that captured value: the YES/NO
\* fallback never replaces it, whatever the first non-blank line contains.
ExplicitReasoningIsKept ==
  \A i \in DOMAIN steps :
    steps[i].type = "auto_instrumented" =>
      LET parsed == ParsedOf(steps[i])
      IN  ~IsNull(parsed.rawFields["reasoning"]) =>
            parsed.reasoning = parsed.rawFields["reasoning"]

\* C12: the first non-blank line is inspected for YES/NO only if no
\* reasoning field was captured: with an explicit REASON or REASONING marker
\* yesNo stays null and the raw field map gets no 'decision' entry, even
\* when the first non-blank line contains YES or NO.
FallbackSkippedWithReasoning ==
  \A i \in DOMAIN steps :
    steps[i].type = "auto_instrumented" =>
      LET parsed == ParsedOf(steps[i])
      IN  ~IsNull(parsed.rawFields["reasoning"]) =>
            /\ IsNull(parsed.yesNo)
            /\ IsNull(parsed.rawFields["decision"])

\* C13: when a CONFIDENCE marker is present and its value cannot be parsed
\* as a number, confidence is null, not NaN, and the raw substring is still
\* kept in the raw field map.
UnparsedConfidenceIsNull ==
  \A i \in DOMAIN steps :
    steps[i].type = "auto_instrumented" =>
      LET parsed == ParsedOf(steps[i])
          raw    == parsed.rawFields["confidence"]
      IN  (~IsNull(raw) /\ parseFloat(Val(raw)).nan) =>
            IsNull(parsed.confidence)

\* `phrase` stands at index i of `text`.
PhraseAt(text, i, phrase) ==
  /\ i + Len(phrase) - 1 <= Len(text)
  /\ SubSeq(text, i, i + Len(phrase) - 1) = phrase

\* Index j of `text` is its end, or a line break that starts a line of the
\* form NAME: (letters and underscores, then a colon).
FieldEndsAt(text, j) ==
  \/ j = Len(text) + 1
  \/ /\ j < Len(text)
     /\ text[j] = "\n"
     /\ \E k \in (j + 2)..Len(text) :
          /\ text[k] = ":"
          /\ \A m \in (j + 1)..(k - 1) : text[m] \in KeyChars

\* The marker names a phrase may be introduced by, colon included.
MarkerNames(phrase) ==
  IF phrase = ReasonPhrase
    THEN {<<"R","E","A","S","O","N",":">>,
          <<"R","E","A","S","O","N","I","N","G",":">>}
  ELSE IF phrase = AgentPhrase THEN {<<"A","G","E","N","T",":">>}
  ELSE {<<"C","O","N","F","I","D","E","N","C","E",":">>}

\* `phrase` is in `text` as a field of its own: it is the first place where
\* its marker name stands (in either case), and only white space follows it
\* up to the end of its field.
OwnField(text, phrase) ==
  \E i \in 1..Len(text) :
    /\ PhraseAt(text, i, phrase)
    /\ \A k \in 1..(i - 1), name \in MarkerNames(phrase) :
         ~MatchesAtIgnoreCase(text, k, name)
    /\ \E j \in (i + Len(phrase))..(Len(text) + 1) :
         /\ FieldEndsAt(text, j)
         /\ \A m \in (i + Len(phrase))..(j - 1) : text[m] \in WhiteSpace

\* What the three phrases stand for.
PhrasesParsed(parsed) ==
  /\ parsed.agent = Some(<<"s","l","a","c","k","_","d","m">>)
  /\ parsed.confidence = Some([nan |-> FALSE, milli |-> 800])
  /\ parsed.reasoning = Some(<<"m","a","t","c","h","e","d"," ",
                               "k","e","y","w","o","r","d","s">>)
  /\ parsed.rawFields["agent"] = Some(<<"s","l","a","c","k","_","d","m">>)
  /\ parsed.rawFields["confidence"] = Some(<<"0",".","8">>)
  /\ parsed.rawFields["reasoning"] = Some(<<"m","a","t","c","h","e","d"," ",
                                            "k","e","y","w","o","r","d","s">>)
  /\ \A k \in KeyNames \ {"agent", "confidence", "reasoning"} :
       IsNull(parsed.rawFields[k])

\* C14 as stated: for any text that contains 'AGENT: slack_dm',
\* 'CONFIDENCE: 0.8' and 'REASON: matched keywords', in any position and
\* layout, the parser returns agent 'slack_dm', confidence 0.8 and reasoning
\* 'matched keywords', and the raw field map holds those three substrings.
PhrasesAnywhereAreParsed ==
  \A i \in DOMAIN steps :
    (/\ steps[i].type = "auto_instrumented"
     /\ Truthy(ResponseOf(steps[i]))
     /\ \A ph \in Phrases : Includes(Val(ResponseOf(steps[i])), ph))
      => PhrasesParsed(ParsedOf(steps[i]))

\* C14, amended: the same result holds for any text in which each of the
\* three phrases is a field of its own, i.e. is the first place where its
\* marker name stands and is followed by white space only up to the end of
\* the text or up to a line break that starts a NAME: line.
PhrasesOnOwnLinesAreParsed ==
  \A i \in DOMAIN steps :
    (/\ steps[i].type = "auto_instrumented"
     /\ Truthy(ResponseOf(steps[i]))
     /\ \A ph \in Phrases : OwnField(Val(ResponseOf(steps[i])), ph))
      => PhrasesParsed(ParsedOf(steps[i]))

\* A span's text held the three phrases, each a field of its own, and they
\* were parsed.
PhrasesOnOwnLinesWereParsed ==
  \E i \in DOMAIN steps :
    /\ steps[i].type = "auto_instrumented"
    /\ Truthy(ResponseOf(steps[i]))
    /\ \A ph \in Phrases : OwnField(Val(ResponseOf(steps[i])), ph)
    /\ PhrasesParsed(ParsedOf(steps[i]))

\* C15: addObservation never merges, replaces or removes: every call, also
\* one with an id the Step already holds, appends one entry for its
\* argument after the entries of the calls before it, so that n calls leave
\* n entries in call order.
ObservationsAreAppended ==
  [][/\ \A i \in DOMAIN steps :
          LET old == steps[i].observations
              new == steps'[i].observations
          IN  new # old => (Len(new) = Len(old) + 1 /\ SubSeq(new, 1, Len(old)) = old)
     /\ (lastCall'.op = "addObservation" /\ (lastCall' # lastCall \/ steps' # steps)) =>
          LET old == steps[lastCall'.step].observations
              new == steps'[lastCall'.step].observations
          IN  /\ Len(new) = Len(old) + 1
              /\ SubSeq(new, 1, Len(old)) = old
              /\ new[Len(new)].id = lastCall'.arg.id
              /\ new[Len(new)].label = lastCall'.arg.label]_vars

\* Two calls with the same id left two entries, in call order.
SameIdObservedTwice ==
  \E i \in DOMAIN steps :
    /\ Len(steps[i].observations) = 2
    /\ steps[i].observations[1].id = steps[i].observations[2].id
    /\ steps[i].observations[1].label = "first look"
    /\ steps[i].observations[2].label = "second look"
    /\ lastCall.op = "addObservation"

\* C16: endStep freezes the duration: once a Step has been ended, a later
\* endStep call on it leaves endedAt and durationMs as the first call set
\* them.
EndedStepStaysAsEnded ==
  [][\A i \in DOMAIN steps :
       ~IsNull(steps[i].endedAt) =>
         /\ steps'[i].endedAt = steps[i].endedAt
         /\ steps'[i].durationMs = steps[i].durationMs]_vars

\* A step of the system that sends a request.
Sends(url) ==
  /\ Len(fetches') = Len(fetches) + 1
  /\ fetches'[Len(fetches')].url = url

\* A step of the system in which a request in flight is answered or lost.
Settles == \E f \in DOMAIN fetches : fetches'[f].state # fetches[f].state

\* C17: exports are best-effort and free of side effects.  Each
\* exportSession or exportObservation call sends at most one request, which
\* is never sent again whatever becomes of it; the call never raises,
\* whether there is no session, the request is lost or the collector
\* answers with a failure status; it leaves the current session and its
\* Steps as they are; and recording calls made while a request is in flight
\* take effect as usual.
ExportsAreBestEffort ==
  [][/\ Len(fetches') <= Len(fetches) + 1
     /\ \A f \in DOMAIN fetches :
          /\ f \in DOMAIN fetches'
          /\ fetches'[f].url = fetches[f].url
          /\ fetches'[f].body = fetches[f].body
     /\ Settles => (Len(fetches') = Len(fetches) /\ lastCall' = lastCall
                    /\ UNCHANGED sdkVars)
     /\ lastCall'.op = "exportSession" => IsNull(lastCall'.threw)
     /\ (Sends(SessionsUrl) \/ (lastCall'.op = "exportSession" /\ lastCall' # lastCall)) =>
          /\ UNCHANGED sdkVars
          /\ lastCall' = Returned("exportSession")
          /\ IsNull(currentSession) => fetches' = fetches
     /\ Sends(ObservationsUrl) =>
          /\ currentSession' = currentSession
          /\ lastCall' = lastCall
          /\ \A i \in DOMAIN steps : steps'[i] = steps[i]
          /\ steps'[Len(steps')] = fetches'[Len(fetches')].body.step
          /\ \E c \in DOMAIN calls : calls[c].pc = "awaiting"
                                     /\ calls'[c].pc \in {"returned", "thrown"}
     /\ ((\E f \in DOMAIN fetches : fetches[f].state = "inflight")
         /\ ~IsNull(currentSession)
         /\ lastCall'.op = "startStep" /\ lastCall' # lastCall) =>
          /\ Len(steps') = Len(steps) + 1
          /\ IsNull(lastCall'.threw)
          /\ fetches' = fetches]_vars

\* A session export was answered with a failure status, and the pipeline
\* recorded a Step after the request had left.
ExportRefusedQuietly ==
  /\ fetches # <<>>
  /\ fetches[1].url = SessionsUrl
  /\ fetches[1].status = Some(400)
  /\ fetches[1].logged = Some("failed to export")
  /\ lastCall = Returned("startStep")
  /\ Len(steps) > Len(fetches[1].body.steps)

\* The field of a Step each recording function writes.
RecordingField ==
  [ setInput |-> "input", setOutput |-> "output", setReasoning |-> "reasoning",
    addObservation |-> "observations", addEvent |-> "events",
    addMetric |-> "metrics" ]

\* A step of the system in which a recording function was called.
RecordingCall ==
  /\ lastCall'.op \in DOMAIN RecordingField
  /\ lastCall' # lastCall \/ steps' # steps

\* `new` is `old` with one entry added at its end.
Grown(old, new) == Len(new) = Len(old) + 1 /\ SubSeq(new, 1, Len(old)) = old

\* What a Step holds was put there by calls made on that Step.
OwnRecordsOnly ==
  \A i \in DOMAIN steps :
    /\ \A k \in DOMAIN steps[i].observations :
         steps[i].observations[k].data.stage = steps[i].name
    /\ \A k \in DOMAIN steps[i].events :
         steps[i].events[k].message = <<steps[i].name, k>>
    /\ steps[i].input.kind # "empty" => steps[i].input.stage = steps[i].name
    /\ steps[i].output.kind # "empty" => steps[i].output.stage = steps[i].name
    /\ ~IsNull(steps[i].reasoning) => steps[i].reasoning = Some(<<steps[i].name>>)
    /\ \A n \in DOMAIN steps[i].metrics : steps[i].metrics[n] = Len(steps[i].name)

\* A recording call writes the one field of the one Step it was given.
RecordingCallIsLocal ==
  RecordingCall =>
    LET i     == lastCall'.step
        field == RecordingField[lastCall'.op]
    IN  /\ \A j \in DOMAIN steps : j # i => steps'[j] = steps[j]
        /\ DOMAIN steps' = DOMAIN steps
        /\ \A f \in DOMAIN steps[i] : f # field => steps'[i][f] = steps[i][f]
        /\ sessions' = sessions
        /\ currentSession' = currentSession
        /\ IsNull(lastCall'.threw)
        /\ lastCall'.op = "addObservation" =>
             Grown(steps[i].observations, steps'[i].observations)
        /\ lastCall'.op = "addEvent" =>
             /\ Grown(steps[i].events, steps'[i].events)
             /\ steps'[i].events[Len(steps'[i].events)].message = lastCall'.arg.message
        /\ lastCall'.op = "setInput" => steps'[i].input = lastCall'.arg
        /\ lastCall'.op = "setOutput" => steps'[i].output = lastCall'.arg
        /\ lastCall'.op = "setReasoning" =>
             steps'[i].reasoning = Some(lastCall'.arg.text)
        /\ lastCall'.op = "addMetric" =>
             steps'[i].metrics[lastCall'.arg.name] = lastCall'.arg.value

\* C18: recording calls on two or more Steps of one session may interleave
\* in any order: each call takes effect on the Step it was given and on
\* nothing else, neither another Step nor the session's own fields, and the
\* observations and events lists of a Step are the calls made on that Step,
\* in call order, with none lost.
RecordingCallsDoNotInterfere == []OwnRecordsOnly /\ [][RecordingCallIsLocal]_vars

\* Two Steps were written to in turn: each holds its own observation and
\* its own two events, the last call having been made on the earlier Step.
StepsRecordedInTurn ==
  /\ Len(steps) = 2
  /\ \A i \in DOMAIN steps :
       /\ Len(steps[i].observations) = 1
       /\ Len(steps[i].events) = 2
       /\ steps[i].input.kind = "query"
  /\ lastCall.op = "addEvent"
  /\ lastCall.step = 1

\* The metrics map holds, for the name written last, the value written last.
LastMetricValueHeld ==
  lastCall.op = "addMetric" =>
    LET metrics == steps[lastCall.step].metrics
    IN  /\ lastCall.arg.name \in DOMAIN metrics
        /\ metrics[lastCall.arg.name] = lastCall.arg.value

\* An addMetric call writes its name and nothing else.
MetricUpsert ==
  (lastCall'.op = "addMetric" /\ (lastCall' # lastCall \/ steps' # steps)) =>
    LET i    == lastCall'.step
        name == lastCall'.arg.name
        old  == steps[i].metrics
        new  == steps'[i].metrics
    IN  /\ DOMAIN new = (DOMAIN old) \cup {name}
        /\ new[name] = lastCall'.arg.value
        /\ \A n \in (DOMAIN old) \ {name} : new[n] = old[n]
        /\ \A f \in DOMAIN steps[i] : f # "metrics" => steps'[i][f] = steps[i][f]
        /\ \A j \in DOMAIN steps : j # i => steps'[j] = steps[j]

\* C19: addMetric is an upsert by name: after any sequence of calls the map
\* holds for each name the value of the last call with that name, and a call
\* with one name leaves every other name and every other field of the Step
\* as it was.
MetricsAreUpsertedByName == []LastMetricValueHeld /\ [][MetricUpsert]_vars

\* A Step holds both metrics, and the last call gave a name a value other
\* than the one the other name holds.
MetricRevised ==
  /\ lastCall.op = "addMetric"
  /\ lastCall.arg = [name |-> "fetched", value |-> 0]
  /\ DOMAIN steps[lastCall.step].metrics = MetricNames
  /\ steps[lastCall.step].metrics["total_found"] = 2847
  /\ steps[lastCall.step].metrics["fetched"] = 0

\* The events of a wrapped call from the opening of its span on: the span
\* is opened, the underlying call is invoked, it settles, the span is
\* closed, the wrapper returns or throws; and the span of a call that has
\* not settled is open.
SpanBracketsCall(c) ==
  LET trace == calls[c].trace
  IN  /\ \A i, j \in DOMAIN trace : trace[i] = trace[j] => i = j
      /\ Precedes(trace, "startSpan", "invoke")
      /\ Settled(c) =>
           /\ Precedes(trace, "invoke", "settled")
           /\ Precedes(trace, "settled", "end")
           /\ Precedes(trace, "end", "return") \/ Precedes(trace, "end", "throw")
           /\ calls[c].span.ended = 1
      /\ ~Settled(c) =>
           /\ \A k \in DOMAIN trace : trace[k] \notin {"settled", "end"}
           /\ calls[c].span.ended = 0

\* The call appended the directive to a prompt.
Injects(c) == \E k \in DOMAIN calls[c].trace : calls[c].trace[k] = "inject"

\* C20 as stated: within one wrapped chat call the span is opened, then the
\* directive is injected into the outgoing prompt, then the underlying call
\* is invoked, then it returns or throws, then the span is closed; the span
\* is never opened after the prompt has been modified and never closed
\* before the underlying call has settled.
SpanOpenedBeforeInjection ==
  \A c \in DOMAIN calls :
    /\ SpanBracketsCall(c)
    /\ Injects(c) <=> Truthy(calls[c].span.attributes.requestMessage)
    /\ Injects(c) => /\ Precedes(calls[c].trace, "startSpan", "inject")
                     /\ Precedes(calls[c].trace, "inject", "invoke")

\* C20, amended: within one wrapped chat call the directive is injected
\* into the outgoing prompt, then the span is opened, then the underlying
\* call is invoked, then it returns or throws, then the span is closed; the
\* span is never opened before the prompt has been modified and never
\* closed before the underlying call has settled.
SpanOpenedAfterInjection ==
  \A c \in DOMAIN calls :
    /\ SpanBracketsCall(c)
    /\ Injects(c) <=> Truthy(calls[c].span.attributes.requestMessage)
    /\ Injects(c) => /\ Precedes(calls[c].trace, "inject", "startSpan")
                     /\ calls[c].sent # calls[c].span.attributes.requestMessage

\* Two calls with a prompt ran their course, one returning and one throwing.
InjectedCallsRanTheirCourse ==
  \E c, d \in DOMAIN calls :
    /\ calls[c].trace = <<"inject", "startSpan", "invoke", "settled",
                          "setAttributes", "setStatus", "end", "return">>
    /\ calls[d].trace = <<"inject", "startSpan", "invoke", "settled",
                          "recordException", "setStatus", "end", "throw">>

\* C21: for every span that finishes while a session is current, the
\* processor creates exactly one Step of type 'auto_instrumented' in that
\* session and sends exactly one observation export for it, after the Step
\* has been ended: the payload carries the Step with endedAt and durationMs
\* set and the sessionId of the session that owns the Step.
FinishedSpanGivesOneStepOneExport ==
  [][\A c \in DOMAIN calls :
       (/\ ~IsNull(currentSession)
        /\ calls[c].span.ended = 0
        /\ calls'[c].span.ended > 0) =>
          LET cur  == Val(currentSession)
              new  == steps'[Len(steps')]
              sent == fetches'[Len(fetches')]
          IN  /\ Len(steps') = Len(steps) + 1
              /\ new.type = "auto_instrumented"
              /\ new.observations[1].data.spanId = c
              /\ sessions'[cur].steps = Append(sessions[cur].steps, Len(steps'))
              /\ \A i \in DOMAIN sessions :
                   i # cur => sessions'[i].steps = sessions[i].steps
              /\ Len(fetches') = Len(fetches) + 1
              /\ sent.url = ObservationsUrl
              /\ sent.body.step = new
              /\ ~IsNull(sent.body.step.endedAt)
              /\ ~IsNull(sent.body.step.durationMs)
              /\ sent.body.sessionId = sessions[cur].sessionId
              /\ new.sessionId = sessions[cur].sessionId]_vars

\* Two spans finished in a session: two Steps, two exports, each export
\* carrying its ended Step.
TwoSpansTwoExports ==
  /\ Len(steps) = 2
  /\ Len(fetches) = 2
  /\ \A k \in 1..2 :
       /\ steps[k].type = "auto_instrumented"
       /\ fetches[k].body.step = steps[k]
       /\ ~IsNull(steps[k].endedAt)
  /\ sessions[1].steps = <<1, 2>>

\* A confidence that was parsed as a number, zero included.
ConfidenceParsed(parsed) ==
  ~IsNull(parsed.confidence) /\ ~Val(parsed.confidence).nan

\* C22: the projected Step's reasoning is the parsed reasoning when one was
\* parsed; otherwise, whenever an agent or a confidence was parsed (a
\* confidence of 0 included), it is a string synthesized from the parts
\* 'Selected agent: X' and 'Confidence: NN%'; it stays null only when none
\* of reasoning, agent and confidence was parsed.
ReasoningSynthesizedFromParts ==
  \A i \in DOMAIN steps :
    steps[i].type = "auto_instrumented" =>
      LET parsed == ParsedOf(steps[i])
      IN  /\ Truthy(parsed.reasoning) => steps[i].reasoning = parsed.reasoning
          /\ (~Truthy(parsed.reasoning)
              /\ (Truthy(parsed.agent) \/ ConfidenceParsed(parsed))) =>
                ~IsNull(steps[i].reasoning)

\* The raw text the underlying client resolved call c with, as the wrapper
\* reads it (`result.text || ''`).
ReceivedText(c) ==
  IF Truthy(Val(calls[c].response).text) THEN Val(Val(calls[c].response).text)
  ELSE EmptyStr

\* C23: after a successful wrapped chat call the span carries the raw
\* response text as received from the model, the clean (reasoning-stripped)
\* response text, and, if and only if the extracted reasoning is non-empty,
\* a separate reasoning attribute holding it.
SpanCarriesRawAndCleanText ==
  \A c \in DOMAIN calls :
    calls[c].pc = "returned" =>
      LET attrs  == calls[c].span.attributes
          raw    == ReceivedText(c)
          reason == ExtractReason(raw)
      IN  /\ \E a \in {"responseText", "responseReasoning"} :
               attrs[a] = Some(raw)
          /\ attrs.responseText = Some(CleanText(raw))
          /\ attrs.responseReasoning =
               IF reason = EmptyStr THEN Null ELSE Some(reason)

\* Index k of `text` is where a line starts, leading blanks aside.
AtLineStart(text, k) ==
  \E b \in 1..k :
    /\ b = 1 \/ text[b - 1] = "\n"
    /\ \A m \in b..(k - 1) : text[m] \in WhiteSpace \ {"\n"}

\* One of `names` stands, in either case, at the start of a line of `text`.
MarkerStartsALine(text, names) ==
  \E k \in 1..Len(text), name \in names :
    MatchesAtIgnoreCase(text, k, name) /\ AtLineStart(text, k)

\* C24: the parser recognizes a marker only as 'MARKER:' at the start of a
\* line: a marker keyword in the middle of a line or as the tail of a longer
\* word does not set the corresponding field.
MarkersCountOnlyAtLineStart ==
  \A i \in DOMAIN steps :
    (steps[i].type = "auto_instrumented" /\ Truthy(ResponseOf(steps[i]))) =>
      LET text   == Val(ResponseOf(steps[i]))
          parsed == ParsedOf(steps[i])
      IN  /\ ~MarkerStartsALine(text, MarkerNames(ReasonPhrase)) =>
               IsNull(parsed.rawFields["reasoning"])
          /\ ~MarkerStartsALine(text, MarkerNames(ConfidencePhrase)) =>
               /\ IsNull(parsed.rawFields["confidence"])
               /\ IsNull(parsed.confidence)

\* C25: a Step that the processor sends to the collector's observations
\* endpoint is ingested: once the request has been delivered, GET
\* /sessions/{sessionId} returns a session whose steps include that Step,
\* without any exportSession call.
DeliveredObservationIsIngested ==
  \A f \in DOMAIN fetches :
    (fetches[f].url = ObservationsUrl /\ fetches[f].state = "delivered") =>
      LET answer == GetSession(fetches[f].body.sessionId)
      IN  /\ answer.status = 200
          /\ \E k \in DOMAIN Val(answer.body).steps :
               Val(answer.body).steps[k] = fetches[f].body.step

\* C26: between API calls every Step, started by hand or projected from a
\* span, satisfies: durationMs is null exactly when endedAt is null, and
\* when both are set durationMs is endedAt minus startedAt in milliseconds.
DurationOnlyAfterEnd ==
  \A i \in DOMAIN steps :
    /\ IsNull(steps[i].durationMs) <=> IsNull(steps[i].endedAt)
    /\ ~IsNull(steps[i].endedAt) =>
         steps[i].durationMs =
           Some(MsNumber(GetTime(Val(steps[i].endedAt)) - GetTime(steps[i].startedAt)))

\* A Step started by hand was ended a millisecond after its start, next to
\* a projected Step and a Step still running or ended at once.
StepsOfBothKindsEnded ==
  /\ \E i \in DOMAIN steps :
       /\ steps[i].type = "custom"
       /\ steps[i].durationMs = Some(MsNumber(1))
       /\ ~IsNull(steps[i].reasoning)
  /\ \E i \in DOMAIN steps :
       /\ steps[i].type = "auto_instrumented"
       /\ ~IsNull(steps[i].endedAt)

\* C27: a session whose status is completed or failed never gains new
\* Steps: after endSession, no call appends a Step to the ended session.
EndedSessionGainsNoSteps ==
  [][\A i \in DOMAIN sessions :
       sessions[i].status \in {"completed", "failed"} =>
         sessions'[i].steps = sessions[i].steps]_vars

\* C28: a wrapped chat call leaves the caller's argument object unchanged:
\* after the call has returned or thrown, the message field of the params
\* object the caller passed (to this call only) equals its value before the
\* call, which is the prompt the span recorded.
CallerParamsUnchanged ==
  \A c \in DOMAIN calls :
    (/\ Settled(c)
     /\ \A d \in DOMAIN calls : calls[d].params = calls[c].params => d = c) =>
      paramsHeap[calls[c].params].message =
        calls[c].span.attributes.requestMessage

\* C29: the Step projected from a wrapped chat call is appended to the
\* session that is current at the moment the call's span finishes, and to
\* no other session: when startSession has replaced the current session
\* while the call was suspended the Step lands in the new session, and each
\* finishing span appends its Step behind those already there, so Steps
\* stand in span-completion order.
StepLandsInSessionCurrentAtFinish ==
  [][\A c \in DOMAIN calls :
       (/\ calls[c].span.ended = 0
        /\ calls'[c].span.ended > 0
        /\ ~IsNull(currentSession)) =>
          LET cur == Val(currentSession)
              new == Len(steps')
          IN  /\ cur = Len(sessions)
              /\ sessions'[cur].steps = Append(sessions[cur].steps, new)
              /\ \A i \in DOMAIN sessions :
                   i # cur => sessions'[i].steps = sessions[i].steps
              /\ \A k \in DOMAIN steps : steps'[k] = steps[k]
              /\ Len(steps') = Len(steps) + 1
              /\ steps'[new].observations[1].data.spanId = c
              /\ steps'[new].sessionId = sessions[cur].sessionId]_vars

\* The call made first finished last, after a session started later than
\* the call had replaced the one before it: both Steps are in the new
\* session, in the order the spans finished.
LateSpanLandedInNewSession ==
  /\ Len(sessions) = 2
  /\ sessions[1].steps = <<>>
  /\ sessions[2].steps = <<1, 2>>
  /\ steps[1].observations[1].data.spanId = 2
  /\ steps[2].observations[1].data.spanId = 1
  /\ steps[2].startedAt < sessions[2].startedAt
  /\ steps[2].sessionId = sessions[2].sessionId

\* C30: the reasoning the proxy extracts reaches the timeline: for a
\* wrapped chat call that returned while a session was current and whose
\* raw response ends with a line 'REASON: r' with non-empty r, the Step
\* projected from the call's span has reasoning r.
ExtractedReasoningReachesStep ==
  \A i \in DOMAIN steps :
    steps[i].type = "auto_instrumented" =>
      LET c == steps[i].observations[1].data.spanId
      IN  (calls[c].pc = "returned"
           /\ ExtractReason(ReceivedText(c)) # EmptyStr) =>
            steps[i].reasoning = Some(ExtractReason(ReceivedText(c)))


====
